---- MODULE Spec2Model ----
(***************************************************************************)
(* Timer scheduling engine of edx_notifications: poll_and_execute_timers   *)
(* and register_purge_notifications_timer (edx_notifications/timer.py),    *)
(* run against the SQL timer table (stores/sql/models.py).                 *)
(*                                                                         *)
(* Times are minutes since midnight UTC of day 0.  An optional (nullable)  *)
(* value is None or Some(v).                                               *)
(***************************************************************************)
EXTENDS Integers, Sequences, FiniteSets, TLC

None == <<>>
Some(v) == <<v>>

(* Python truth value of an optional integer: None and 0 are false. *)
Truthy(x) == x # None /\ x[1] # 0

(***************************************************************************)
(* Program constants                                                       *)
(***************************************************************************)
NOTIFICATION_MINIMUM_PERIODICITY_MINS == 60
MINUTES_IN_A_DAY == 24 * 60

PurgeTimerName == "purge-notifications-timer"
PurgeClassName == "edx_notifications.callbacks.PurgeNotificationsCallbackHandler"

(***************************************************************************)
(* Bounds and input sets of the model                                      *)
(***************************************************************************)
MaxTicks == 2
MaxRegistrations == 2
MaxExternalEdits == 1

(* 23:00 of day 0: the next 01:00 UTC is two hours away. *)
InitNows == {1380}
TickSteps == {60}
(* the last instant the clock is advanced to *)
MaxNow == 1380 + 60 * MaxTicks

AdHocNames == {"t1"}
Names == AdHocNames \cup {PurgeTimerName}

(* callback_at of timers created by other parts of the platform *)
InitCallbackAts == {1320, 1380}
PeriodicityVals == {None, Some(-30), Some(0), Some(60), Some(120)}
GoodClassName == "app.timers.GoodHandler"
MissingClassName == "app.timers.NoSuchHandler"

(* what a handler may return as reschedule_in_mins *)
RescheduleVals == {None, Some(-30), Some(0), Some(30), Some(120)}
ErrorLists == {<<"quota exceeded">>}
ExceptionMsgs == {"boom", ""}
StoreErrorMsg == "database is locked"

Workers == {"w1", "w2"}
SeqWorkers == {"w1"}

(***************************************************************************)
(* Timer records                                                           *)
(***************************************************************************)
(* NotificationCallbackTimer as built by another part of the platform:     *)
(* only name, callback_at, class_name, context and periodicity_min given.  *)
NewTimer(name, callback_at, class_name, periodicity_min) ==
    [name |-> name,
     callback_at |-> callback_at,
     class_name |-> class_name,
     context |-> None,
     is_active |-> TRUE,
     periodicity_min |-> periodicity_min,
     executed_at |-> None,
     err_msg |-> None,
     results |-> None]

(* DictField.to_json / from_json: a dict is stored as its JSON text. *)
DictField_to_json(d) == IF d = None THEN None ELSE Some([json |-> d[1]])
DictField_from_json(s) == IF s = None THEN None ELSE Some(s[1].json)

(* SQLNotificationCallbackTimer.load_from_data_object *)
load_from_data_object(timer) ==
    [name |-> timer.name,
     callback_at |-> timer.callback_at,
     class_name |-> timer.class_name,
     context |-> DictField_to_json(timer.context),
     is_active |-> timer.is_active,
     periodicity_min |-> timer.periodicity_min,
     executed_at |-> timer.executed_at,
     err_msg |-> timer.err_msg,
     results |-> DictField_to_json(timer.results)]

(* the context column left out of the copy *)
to_data_object_NoContext(row) ==
    [name |-> row.name,
     callback_at |-> row.callback_at,
     class_name |-> row.class_name,
     context |-> None,
     is_active |-> row.is_active,
     periodicity_min |-> row.periodicity_min,
     executed_at |-> row.executed_at,
     err_msg |-> row.err_msg,
     results |-> DictField_from_json(row.results)]

(* SQLNotificationCallbackTimer.to_data_object *)
to_data_object(row) ==
    [name |-> row.name,
     callback_at |-> row.callback_at,
     class_name |-> row.class_name,
     context |-> DictField_from_json(row.context),
     is_active |-> row.is_active,
     periodicity_min |-> row.periodicity_min,
     executed_at |-> row.executed_at,
     err_msg |-> row.err_msg,
     results |-> DictField_from_json(row.results)]

(***************************************************************************)
(* The store: the timer table, keyed by its primary key name               *)
(***************************************************************************)
(* store.save_notification_timer: insert or overwrite the row of that name *)
save_notification_timer(st, timer) ==
    [n \in DOMAIN st \cup {timer.name} |->
        IF n = timer.name THEN load_from_data_object(timer) ELSE st[n]]

(* store.get_all_active_timers(): active, due and not yet executed *)
get_all_active_timers(st, t) ==
    {to_data_object(st[n]) : n \in {m \in DOMAIN st :
        /\ st[m].is_active
        /\ st[m].callback_at <= t
        /\ st[m].executed_at = None}}

(***************************************************************************)
(* poll_and_execute_timers: the body of the loop                           *)
(***************************************************************************)
(* line 42 left out: the timer is saved at line 43 without the mark *)
MarkExecuted_Unmarked(timer, t) == timer

(* line 42: the in-flight mark *)
MarkExecuted(timer, t) == [timer EXCEPT !.executed_at = Some(t)]

(* import_module / getattr on class_name *)
Resolvable(class_name) == class_name # MissingClassName

(* str(results['errors']) of a Python list of strings *)
RECURSIVE ReprItems(_)
ReprItems(errs) ==
    IF errs = <<>> THEN ""
    ELSE "'" \o Head(errs) \o "'" \o
         (IF Len(errs) > 1 THEN ", " ELSE "") \o ReprItems(Tail(errs))
StrOfList(errs) == "[" \o ReprItems(errs) \o "]"

(* the timer's periodicity preferred to the handler's request *)
RerunDelta_PeriodFirst(res, timer) ==
    LET requested == res.reschedule_in_mins
        delta == IF Truthy(timer.periodicity_min)
                 THEN timer.periodicity_min ELSE requested
        min_delta == NOTIFICATION_MINIMUM_PERIODICITY_MINS
    IN  IF Truthy(delta)
        THEN Some(IF delta[1] >= min_delta THEN delta[1] ELSE min_delta)
        ELSE None

(* lines 64-65 left out: the interval is applied as given *)
RerunDelta_NoFloor(res, timer) ==
    LET requested == res.reschedule_in_mins
        delta == IF Truthy(requested) THEN requested ELSE timer.periodicity_min
    IN  IF Truthy(delta) THEN Some(delta[1]) ELSE None

(* lines 64-65 applied to the handler's request only *)
RerunDelta_FloorsRequestOnly(res, timer) ==
    LET requested == res.reschedule_in_mins
        min_delta == NOTIFICATION_MINIMUM_PERIODICITY_MINS
    IN  IF Truthy(requested)
        THEN Some(IF requested[1] >= min_delta THEN requested[1] ELSE min_delta)
        ELSE IF Truthy(timer.periodicity_min)
             THEN Some(timer.periodicity_min[1])
             ELSE None

(* the floor applied also when there is no interval at all *)
RerunDelta_FloorsNone(res, timer) ==
    LET requested == res.reschedule_in_mins
        delta == IF Truthy(requested) THEN requested ELSE timer.periodicity_min
        min_delta == NOTIFICATION_MINIMUM_PERIODICITY_MINS
    IN  IF Truthy(delta)
        THEN Some(IF delta[1] >= min_delta THEN delta[1] ELSE min_delta)
        ELSE Some(min_delta)

(* the floor comparison with its branches exchanged *)
RerunDelta_Swapped(res, timer) ==
    LET requested == res.reschedule_in_mins
        delta == IF Truthy(requested) THEN requested ELSE timer.periodicity_min
        min_delta == NOTIFICATION_MINIMUM_PERIODICITY_MINS
    IN  IF Truthy(delta)
        THEN Some(IF delta[1] >= min_delta THEN min_delta ELSE delta[1])
        ELSE None

(* lines 60-65: the interval to re-run in, None when there is none *)
RerunDelta(res, timer) ==
    LET requested == res.reschedule_in_mins
        delta == IF Truthy(requested) THEN requested ELSE timer.periodicity_min
        min_delta == NOTIFICATION_MINIMUM_PERIODICITY_MINS
    IN  IF Truthy(delta)
        THEN Some(IF delta[1] >= min_delta THEN delta[1] ELSE min_delta)
        ELSE None

(* executed_at reset after every successful run, interval or not *)
ApplyResults_ResetAlways(timer, res) ==
    IF res.errors = <<>>
    THEN LET rerun_delta == RerunDelta(res, timer)
         IN  IF rerun_delta # None
             THEN [timer EXCEPT !.callback_at = @ + rerun_delta[1],
                                !.executed_at = None]
             ELSE [timer EXCEPT !.executed_at = None]
    ELSE [timer EXCEPT !.err_msg = Some(StrOfList(res.errors))]

(* reported errors handled like an exception: the timer is deactivated *)
ApplyResults_ErrorsDeactivate(timer, res) ==
    IF res.errors = <<>>
    THEN LET rerun_delta == RerunDelta(res, timer)
         IN  IF rerun_delta # None
             THEN [timer EXCEPT !.callback_at = @ + rerun_delta[1],
                                !.executed_at = None]
             ELSE timer
    ELSE [timer EXCEPT !.err_msg = Some(StrOfList(res.errors)),
                       !.is_active = FALSE]

(* lines 58-70: interpret the handler's result dict *)
ApplyResults(timer, res) ==
    IF res.errors = <<>>
    THEN LET rerun_delta == RerunDelta(res, timer)
         IN  IF rerun_delta # None
             THEN [timer EXCEPT !.callback_at = @ + rerun_delta[1],
                                !.executed_at = None]
             ELSE timer
    ELSE [timer EXCEPT !.err_msg = Some(StrOfList(res.errors))]

(* the except block without line 76 *)
OnException_KeepActive(timer, msg) ==
    [timer EXCEPT !.err_msg = Some(msg)]

(* lines 75-76: the except block *)
OnException(timer, msg) ==
    [timer EXCEPT !.err_msg = Some(msg), !.is_active = FALSE]

(* What resolving and calling the handler can do: raise, or return a       *)
(* value: a dict, or None (on which results.get raises).                   *)
HandlerOutcomes ==
    [kind : {"raise"}, msg : ExceptionMsgs, results : {None}]
    \cup [kind : {"return"}, msg : {""}, results : {None}]
    \cup [kind : {"return"}, msg : {""},
          results : {Some([errors |-> <<>>, reschedule_in_mins |-> r]) :
                        r \in RescheduleVals}]
    \cup [kind : {"return"}, msg : {""},
          results : {Some([errors |-> e, reschedule_in_mins |-> None]) :
                        e \in ErrorLists}]

ImportErrorMsg == "No module named timers"
NoneGetMsg == "'NoneType' object has no attribute 'get'"

(* lines 45-70 and 73-76: the try body up to the save, and the except      *)
(* block's assignments when it raised.  raised tells which save follows.   *)
TryBody(timer, outcome) ==
    IF ~Resolvable(timer.class_name)
    THEN [timer |-> OnException(timer, ImportErrorMsg), raised |-> TRUE,
          called |-> FALSE]
    ELSE IF outcome.kind = "raise"
    THEN [timer |-> OnException(timer, outcome.msg), raised |-> TRUE,
          called |-> TRUE]
    ELSE IF outcome.results = None
    THEN [timer |-> OnException([timer EXCEPT !.results = None], NoneGetMsg),
          raised |-> TRUE, called |-> TRUE]
    ELSE [timer |-> ApplyResults([timer EXCEPT !.results = outcome.results],
                                 outcome.results[1]),
          raised |-> FALSE, called |-> TRUE]

(***************************************************************************)
(* register_purge_notifications_timer                                      *)
(***************************************************************************)
(* lines 94-95: (now + 1 day).replace(hour=1, minute=0, ...) *)
first_execution_at(t) ==
    ((t + MINUTES_IN_A_DAY) \div MINUTES_IN_A_DAY) * MINUTES_IN_A_DAY + 60

(* registration without the lookup: the timer is saved anew every time *)
register_purge_notifications_timer_NoCheck(st, t) ==
    save_notification_timer(st,
        NewTimer(PurgeTimerName, first_execution_at(t), PurgeClassName,
                 Some(MINUTES_IN_A_DAY)))

(* registration that moves an existing timer to the computed first run *)
register_purge_notifications_timer_Refresh(st, t) ==
    IF PurgeTimerName \in DOMAIN st
    THEN [st EXCEPT ![PurgeTimerName].callback_at = first_execution_at(t)]
    ELSE save_notification_timer(st,
            NewTimer(PurgeTimerName, first_execution_at(t), PurgeClassName,
                     Some(MINUTES_IN_A_DAY)))

(* lines 97-107 *)
register_purge_notifications_timer(st, t) ==
    IF PurgeTimerName \in DOMAIN st
    THEN st
    ELSE save_notification_timer(st,
            NewTimer(PurgeTimerName, first_execution_at(t), PurgeClassName,
                     Some(MINUTES_IN_A_DAY)))

(***************************************************************************)
(* State                                                                   *)
(***************************************************************************)
VARIABLES
    now,       \* datetime.now(pytz.UTC)
    store,     \* the timer table: name -> row
    pc,        \* per worker: where it is in poll_and_execute_timers
    queue,     \* per worker: timers_not_executed still to be iterated
    cur,       \* per worker: the loop variable timer, None outside the body
    escaped,   \* per worker: the line an exception left the pass from, or ""
    calls,     \* history: per timer, the callback_at of each handler call
    passRan,   \* history: per worker, timers whose handler ran in this pass
    regs,      \* history: what each registration call found in the store
    nedits,    \* history: number of edits made to the table from outside
    lastCallAt, \* history: per timer, the time of its latest handler call
    passRead,  \* history: per worker, the timers its current pass read as due
    crashed    \* history: timers whose processing a process crash cut short

vars == <<now, store, pc, queue, cur, escaped, calls, passRan, regs, nedits,
          lastCallAt, passRead, crashed>>

TimerContext == Some([course_id |-> "course-v1"])

(* timers as other parts of the platform create them; one whose class     *)
(* cannot be resolved fails on its first run whatever its periodicity     *)
FreshTimers(n) ==
    {[NewTimer(n, c, GoodClassName, p) EXCEPT !.context = TimerContext] :
        c \in InitCallbackAts, p \in PeriodicityVals}
    \cup {[NewTimer(n, c, MissingClassName, None) EXCEPT !.context = TimerContext] :
        c \in InitCallbackAts}

Init ==
    /\ now \in InitNows
    /\ \E present \in SUBSET AdHocNames :
         \E f \in [present -> UNION {FreshTimers(n) : n \in AdHocNames}] :
            /\ \A n \in present : f[n].name = n
            /\ store = [n \in present |-> load_from_data_object(f[n])]
    /\ pc = [w \in Workers |-> "idle"]
    /\ queue = [w \in Workers |-> {}]
    /\ cur = [w \in Workers |-> None]
    /\ escaped = [w \in Workers |-> ""]
    /\ calls = [n \in Names |-> <<>>]
    /\ passRan = [w \in Workers |-> <<>>]
    /\ regs = <<>>
    /\ nedits = 0
    /\ lastCallAt = [n \in Names |-> None]
    /\ passRead = [w \in Workers |-> {}]
    /\ crashed = {}

(***************************************************************************)
(* Actions                                                                 *)
(***************************************************************************)
Tick ==
    /\ \E d \in TickSteps : now + d <= MaxNow /\ now' = now + d
    /\ UNCHANGED <<store, pc, queue, cur, escaped, calls, passRan, regs, nedits,
                 lastCallAt, passRead, crashed>>

(* lines 34-37: a scan pass starts and reads the due timers *)
StartPass(w) ==
    /\ pc[w] = "idle"
    /\ queue' = [queue EXCEPT ![w] = get_all_active_timers(store, now)]
    /\ pc' = [pc EXCEPT ![w] = "loop"]
    /\ escaped' = [escaped EXCEPT ![w] = ""]
    /\ passRan' = [passRan EXCEPT ![w] = <<>>]
    /\ passRead' = [passRead EXCEPT ![w] =
                       {<<timer.name, timer.callback_at>> :
                           timer \in get_all_active_timers(store, now)}]
    /\ UNCHANGED <<now, store, cur, calls, regs, nedits, lastCallAt, crashed>>

(* line 43 left out: the mark is set on the object and never saved *)
MarkInFlight_NoSave(w) ==
    /\ pc[w] = "loop"
    /\ \E timer \in queue[w] :
         /\ queue' = [queue EXCEPT ![w] = @ \ {timer}]
         /\ cur' = [cur EXCEPT ![w] = Some(MarkExecuted(timer, now))]
    /\ pc' = [pc EXCEPT ![w] = "marked"]
    /\ UNCHANGED <<now, store, escaped, calls, passRan, regs, nedits,
                 lastCallAt, passRead, crashed>>

(* lines 39-43: next timer of the list, marked in flight and saved *)
MarkInFlight(w) ==
    /\ pc[w] = "loop"
    /\ \E timer \in queue[w] :
         LET marked == MarkExecuted(timer, now)
         IN  /\ queue' = [queue EXCEPT ![w] = @ \ {timer}]
             /\ cur' = [cur EXCEPT ![w] = Some(marked)]
             /\ store' = save_notification_timer(store, marked)
    /\ pc' = [pc EXCEPT ![w] = "marked"]
    /\ UNCHANGED <<now, escaped, calls, passRan, regs, nedits,
                 lastCallAt, passRead, crashed>>

(* lines 45-70, 73-76: resolve the class, call the handler, read the       *)
(* result.  timed: the time of the call is kept in lastCallAt.             *)
Invoke(w, timed) ==
    /\ pc[w] = "marked"
    /\ \E outcome \in HandlerOutcomes :
         LET timer == cur[w][1]
             r == TryBody(timer, outcome)
         IN  /\ cur' = [cur EXCEPT ![w] = Some(r.timer)]
             /\ pc' = [pc EXCEPT ![w] = IF r.raised THEN "save77" ELSE "save72"]
             /\ calls' = IF r.called
                         THEN [calls EXCEPT ![timer.name] =
                                  Append(@, timer.callback_at)]
                         ELSE calls
             /\ passRan' = IF r.called
                           THEN [passRan EXCEPT ![w] = Append(@, timer.name)]
                           ELSE passRan
             /\ lastCallAt' = IF r.called /\ timed
                              THEN [lastCallAt EXCEPT ![timer.name] = Some(now)]
                              ELSE lastCallAt
    /\ UNCHANGED <<now, store, queue, escaped, regs, nedits, passRead, crashed>>

InvokeHandler(w) == Invoke(w, FALSE)

(* the list of due timers read again after each save *)
SaveResult_Requery(w) ==
    /\ pc[w] = "save72"
    /\ store' = save_notification_timer(store, cur[w][1])
    /\ queue' = [queue EXCEPT ![w] = get_all_active_timers(store', now)]
    /\ cur' = [cur EXCEPT ![w] = None]
    /\ pc' = [pc EXCEPT ![w] = "loop"]
    /\ UNCHANGED <<now, escaped, calls, passRan, regs, nedits,
                 lastCallAt, passRead, crashed>>

(* line 72 *)
SaveResult(w) ==
    /\ pc[w] = "save72"
    /\ store' = save_notification_timer(store, cur[w][1])
    /\ cur' = [cur EXCEPT ![w] = None]
    /\ pc' = [pc EXCEPT ![w] = "loop"]
    /\ UNCHANGED <<now, queue, escaped, calls, passRan, regs, nedits,
                 lastCallAt, passRead, crashed>>

(* lines 77-79 *)
SaveFailure(w) ==
    /\ pc[w] = "save77"
    /\ store' = save_notification_timer(store, cur[w][1])
    /\ cur' = [cur EXCEPT ![w] = None]
    /\ pc' = [pc EXCEPT ![w] = "loop"]
    /\ UNCHANGED <<now, queue, escaped, calls, passRan, regs, nedits,
                 lastCallAt, passRead, crashed>>

(* the pass given up with timers of its list still to run *)
EndPass_Early(w) ==
    /\ pc[w] = "loop"
    /\ pc' = [pc EXCEPT ![w] = "idle"]
    /\ queue' = [queue EXCEPT ![w] = {}]
    /\ passRan' = [passRan EXCEPT ![w] = <<>>]
    /\ passRead' = [passRead EXCEPT ![w] = {}]
    /\ UNCHANGED <<now, store, cur, escaped, calls, regs, nedits,
                 lastCallAt, crashed>>

(* line 81: the list is exhausted *)
EndPass(w) ==
    /\ pc[w] = "loop"
    /\ queue[w] = {}
    /\ pc' = [pc EXCEPT ![w] = "idle"]
    /\ passRan' = [passRan EXCEPT ![w] = <<>>]
    /\ passRead' = [passRead EXCEPT ![w] = {}]
    /\ UNCHANGED <<now, store, queue, cur, escaped, calls, regs, nedits,
                 lastCallAt, crashed>>

(* the perform_timer_registrations signal at process start *)
Register ==
    /\ Len(regs) < MaxRegistrations
    /\ store' = register_purge_notifications_timer(store, now)
    /\ regs' = Append(regs,
                 IF PurgeTimerName \notin DOMAIN store THEN "absent"
                 ELSE IF store[PurgeTimerName].results = None
                         /\ store[PurgeTimerName].executed_at = None
                      THEN "untouched"
                      ELSE "touched")
    /\ UNCHANGED <<now, pc, queue, cur, escaped, calls, passRan, nedits,
                 lastCallAt, passRead, crashed>>

PassStep(w) ==
    \/ StartPass(w)
    \/ MarkInFlight(w)
    \/ InvokeHandler(w)
    \/ SaveResult(w)
    \/ SaveFailure(w)
    \/ EndPass(w)

(* Sequential scan passes, a reliable store, nobody else edits the table. *)
Next ==
    \/ Tick
    \/ Register
    \/ \E w \in SeqWorkers : PassStep(w)

Spec == Init /\ [][Next]_vars

(***************************************************************************)
(* A store whose save can raise (a database error, a results dict that     *)
(* cannot be serialised)                                                   *)
(***************************************************************************)
(* line 43 raises: outside the try, the exception leaves the function *)
SaveInFlightRaises(w) ==
    /\ pc[w] = "loop"
    /\ \E timer \in queue[w] :
         queue' = [queue EXCEPT ![w] = @ \ {timer}]
    /\ pc' = [pc EXCEPT ![w] = "idle"]
    /\ escaped' = [escaped EXCEPT ![w] = "line43"]
    /\ UNCHANGED <<now, store, cur, calls, passRan, regs, nedits,
                 lastCallAt, passRead, crashed>>

(* line 72 raises: inside the try, so the except block runs *)
SaveResultRaises(w) ==
    /\ pc[w] = "save72"
    /\ cur' = [cur EXCEPT ![w] = Some(OnException(cur[w][1], StoreErrorMsg))]
    /\ pc' = [pc EXCEPT ![w] = "save77"]
    /\ UNCHANGED <<now, store, queue, escaped, calls, passRan, regs, nedits,
                 lastCallAt, passRead, crashed>>

(* line 77 raises: inside the except block, nothing catches it *)
SaveFailureRaises(w) ==
    /\ pc[w] = "save77"
    /\ cur' = [cur EXCEPT ![w] = None]
    /\ pc' = [pc EXCEPT ![w] = "idle"]
    /\ escaped' = [escaped EXCEPT ![w] = "line77"]
    /\ UNCHANGED <<now, store, queue, calls, passRan, regs, nedits,
                 lastCallAt, passRead, crashed>>

NextStoreFaults ==
    \/ Next
    \/ \E w \in SeqWorkers : SaveInFlightRaises(w)
    \/ \E w \in SeqWorkers : SaveResultRaises(w)
    \/ \E w \in SeqWorkers : SaveFailureRaises(w)

SpecStoreFaults == Init /\ [][NextStoreFaults]_vars

(***************************************************************************)
(* An operator nudging a timer from outside the engine: executed_at of an  *)
(* active timer that no pass is working on is cleared by hand              *)
(***************************************************************************)
ExternalReset(n) ==
    /\ nedits < MaxExternalEdits
    /\ n \in DOMAIN store
    /\ store[n].is_active
    /\ store[n].executed_at # None
    /\ \A w \in Workers : pc[w] = "idle"
    /\ store' = [store EXCEPT ![n].executed_at = None]
    /\ nedits' = nedits + 1
    /\ UNCHANGED <<now, pc, queue, cur, escaped, calls, passRan, regs,
                 lastCallAt, passRead, crashed>>

NextExternal ==
    \/ Next
    \/ \E n \in Names : ExternalReset(n)

SpecExternal == Init /\ [][NextExternal]_vars

(***************************************************************************)
(* The process dies in the middle of a pass and is started again: what the *)
(* pass held in memory is gone, the store keeps what was saved.  A death   *)
(* between the save of line 43 and the save of line 72 or 77 is recorded   *)
(* in crashed with the timer it interrupted, as the pass had read it.      *)
(***************************************************************************)
Crash(w) ==
    /\ pc[w] # "idle"
    /\ pc' = [pc EXCEPT ![w] = "idle"]
    /\ queue' = [queue EXCEPT ![w] = {}]
    /\ cur' = [cur EXCEPT ![w] = None]
    /\ passRan' = [passRan EXCEPT ![w] = <<>>]
    /\ passRead' = [passRead EXCEPT ![w] = {}]
    /\ crashed' = IF pc[w] \in {"marked", "save72", "save77"}
                  THEN LET read == CHOOSE r \in passRead[w] :
                                       r[1] = cur[w][1].name
                       IN  crashed \cup {[name |-> read[1],
                                          callback_at |-> read[2]]}
                  ELSE crashed
    /\ UNCHANGED <<now, store, escaped, calls, regs, nedits, lastCallAt>>

NextCrash ==
    \/ Next
    \/ \E w \in SeqWorkers : Crash(w)

SpecCrash == Init /\ [][NextCrash]_vars

(***************************************************************************)
(* Sequential passes with the time of every handler call written down      *)
(***************************************************************************)
InvokeHandlerTimed(w) == Invoke(w, TRUE)

PassStepTimed(w) ==
    \/ StartPass(w)
    \/ MarkInFlight(w)
    \/ InvokeHandlerTimed(w)
    \/ SaveResult(w)
    \/ SaveFailure(w)
    \/ EndPass(w)

NextClock ==
    \/ Tick
    \/ Register
    \/ \E w \in SeqWorkers : PassStepTimed(w)

SpecClock == Init /\ [][NextClock]_vars

(***************************************************************************)
(* Two engine instances scanning the same store, their steps interleaved;   *)
(* the passes are short against the clock, which stands still meanwhile     *)
(***************************************************************************)
NextConc ==
    \/ Register
    \/ \E w \in Workers : PassStep(w)

SpecConc == Init /\ [][NextConc]_vars

(***************************************************************************)
(* The current time held fixed, scan passes triggered again and again: a    *)
(* pass that can take a step, or be started, eventually does                *)
(***************************************************************************)
NextFixedTime ==
    \/ Register
    \/ \E w \in SeqWorkers : PassStep(w)

SpecFixedTime ==
    /\ Init
    /\ [][NextFixedTime]_vars
    /\ WF_vars(\E w \in SeqWorkers : PassStep(w))

(***************************************************************************)
(* Properties                                                              *)
(***************************************************************************)
Max(a, b) == IF a >= b THEN a ELSE b
Last(seq) == seq[Len(seq)]
NoDuplicates(seq) ==
    \A i, j \in 1..Len(seq) : i # j => seq[i] # seq[j]

(* the step in which worker w saves at line 72 / at line 77 *)
SavesResult(w) == pc[w] = "save72" /\ pc'[w] = "loop"
SavesFailure(w) == pc[w] = "save77" /\ pc'[w] = "loop"

(* the row of timer n says its last saved result reported errors *)
SoftFailed(st, n) ==
    /\ n \in DOMAIN st
    /\ st[n].results # None
    /\ DictField_from_json(st[n].results)[1].errors # <<>>

(* C1: within one scan pass the handler of a timer is invoked at most     *)
(* once, also when the reschedule made during the pass leaves the timer   *)
(* due again (callback_at still in the past, executed_at cleared).        *)
C1_AtMostOncePerPass ==
    \A w \in Workers : NoDuplicates(passRan[w])

(* a pass still running after it rescheduled a timer to a time already due *)
C1_Witness ==
    \E w \in Workers : \E i \in 1..Len(passRan[w]) :
        LET n == passRan[w][i]
        IN  /\ pc[w] = "loop"
            /\ store[n].is_active
            /\ store[n].executed_at = None
            /\ store[n].callback_at <= now

(* C2: under sequential passes and no outside edits, a timer's handler is *)
(* invoked at most once for every value its callback_at takes, over any   *)
(* number of passes.                                                      *)
C2_OncePerCallbackAt ==
    \A n \in Names : NoDuplicates(calls[n])

(* a timer run three times, at three values of callback_at *)
C2_Witness ==
    \E n \in Names : Len(calls[n]) >= 3

(* C3: a due timer with periodicity_min = P >= floor whose handler        *)
(* returns no errors and no reschedule_in_mins is saved with callback_at  *)
(* = old callback_at + max(P, floor), executed_at null, is_active true.   *)
C3_PeriodicReschedule ==
    [][\A w \in Workers : SavesResult(w) =>
        LET timer == cur[w][1]
            res == timer.results[1]
            old == store[timer.name]
            new == store'[timer.name]
            P == old.periodicity_min
        IN  (/\ res.errors = <<>>
             /\ res.reschedule_in_mins = None
             /\ P # None
             /\ P[1] >= NOTIFICATION_MINIMUM_PERIODICITY_MINS)
            => /\ new.callback_at = old.callback_at
                     + Max(P[1], NOTIFICATION_MINIMUM_PERIODICITY_MINS)
               /\ new.executed_at = None
               /\ new.is_active]_vars

(* the scenario: due an hour ago, P = 120, so the next run is in an hour *)
C3_Witness ==
    \E n \in DOMAIN store :
        /\ store[n].periodicity_min = Some(120)
        /\ store[n].results = DictField_to_json(
               Some([errors |-> <<>>, reschedule_in_mins |-> None]))
        /\ calls[n] # <<>>
        /\ Last(calls[n]) = now - 60
        /\ store[n].callback_at = Last(calls[n]) + 120
        /\ store[n].executed_at = None
        /\ store[n].is_active

(* C4: whenever the handler succeeds and returns reschedule_in_mins = R   *)
(* with R below the floor (R = 0 included, whatever periodicity_min is),  *)
(* the interval added to callback_at is exactly the floor.                *)
C4_BelowFloorGivesFloor ==
    [][\A w \in Workers : SavesResult(w) =>
        LET timer == cur[w][1]
            res == timer.results[1]
            old == store[timer.name]
            new == store'[timer.name]
            R == res.reschedule_in_mins
        IN  (/\ res.errors = <<>>
             /\ R # None
             /\ R[1] < NOTIFICATION_MINIMUM_PERIODICITY_MINS)
            => new.callback_at = old.callback_at
                     + NOTIFICATION_MINIMUM_PERIODICITY_MINS]_vars

(* C5: once is_active is false it stays false over later scan passes and  *)
(* registrations, and the timer's handler is not invoked again.           *)
C5_InactiveIsTerminal ==
    [][\A n \in DOMAIN store : ~store[n].is_active =>
        /\ n \in DOMAIN store'
        /\ ~store'[n].is_active
        /\ calls'[n] = calls[n]]_vars

(* t1 was deactivated before 01:00 and a later pass ran the purge timer *)
C5_Witness ==
    /\ "t1" \in DOMAIN store
    /\ ~store["t1"].is_active
    /\ store["t1"].executed_at[1] < 1500
    /\ calls[PurgeTimerName] # <<>>
    /\ Len(regs) = MaxRegistrations

(* C6: when the handler raises or its class cannot be resolved, the row   *)
(* saved at the end of the timer's processing has is_active false, a      *)
(* non-null err_msg, executed_at still the in-flight mark and callback_at *)
(* unchanged.                                                             *)
C6_HardFailureRecord ==
    [][\A w \in Workers : SavesFailure(w) =>
        LET old == store[cur[w][1].name]
            new == store'[cur[w][1].name]
        IN  /\ ~new.is_active
            /\ new.err_msg # None
            /\ old.executed_at # None
            /\ new.executed_at = old.executed_at
            /\ new.callback_at = old.callback_at]_vars

(* a row deactivated by a handler that raised *)
C6_Witness ==
    \E n \in DOMAIN store :
        /\ ~store[n].is_active
        /\ store[n].err_msg = Some("boom")
        /\ store[n].executed_at # None
        /\ calls[n] # <<>>
        /\ store[n].callback_at = Last(calls[n])

(* C7: after the handler returned non-empty errors the row is active,     *)
(* callback_at is unchanged, executed_at is set and err_msg is taken from *)
(* the errors; later passes do not run the timer, and only because        *)
(* executed_at is set: with it cleared the timer would be selected.       *)
SoftFailureRecord(st, n, t, history) ==
    LET row == st[n]
        errors == DictField_from_json(row.results)[1].errors
    IN  /\ row.is_active
        /\ row.callback_at = Last(history)
        /\ row.executed_at # None
        /\ row.err_msg = Some(StrOfList(errors))
        /\ \A timer \in get_all_active_timers(st, t) : timer.name # n
        /\ \E timer \in get_all_active_timers(
                  [st EXCEPT ![n].executed_at = None], t) : timer.name = n

C7_SoftFailure ==
    [][\A n \in Names :
        /\ SoftFailed(store, n) => /\ SoftFailureRecord(store, n, now, calls[n])
                                   /\ calls'[n] = calls[n]
        /\ SoftFailed(store', n) => SoftFailureRecord(store', n, now', calls'[n])
      ]_vars

(* a soft-failed timer, and a pass started after its own pass has ended *)
C7_Witness ==
    /\ SoftFailed(store, "t1")
    /\ store["t1"].err_msg = Some("['quota exceeded']")
    /\ store["t1"].executed_at[1] < 1500
    /\ calls[PurgeTimerName] # <<>>

(* C8: a failure while processing one due timer, in resolution, in the    *)
(* handler or in saving the failure state, never aborts the pass: the     *)
(* other timers read at its start are still processed and no exception    *)
(* leaves poll_and_execute_timers.                                        *)
C8_FailureNeverAborts ==
    \A w \in Workers :
        /\ escaped[w] # "line77"
        /\ (pc[w] = "idle" /\ escaped[w] # "line43") => queue[w] = {}

(* C9: from an empty store, after registrations and scan passes there is  *)
(* exactly one row named purge-notifications-timer, and a registration    *)
(* made while the row exists leaves every field of it unchanged.          *)
C9_RegistrationIdempotent ==
    [][/\ regs' # regs =>
            /\ PurgeTimerName \in DOMAIN store'
            /\ PurgeTimerName \in DOMAIN store =>
                   store'[PurgeTimerName] = store[PurgeTimerName]
       /\ regs' # <<>> =>
            Cardinality({n \in DOMAIN store' :
                            store'[n].name = PurgeTimerName}) = 1
      ]_vars

(* the second registration found a row that a scan pass had worked on *)
C9_Witness ==
    /\ Len(regs) = 2
    /\ regs[1] = "absent"
    /\ regs[2] = "touched"
    /\ store[PurgeTimerName].results # None

(* C10: after every run in which the handler returns no errors the saved  *)
(* err_msg is null, also when it was non-null before the run.             *)
C10_SuccessClearsErrMsg ==
    [][\A w \in Workers : SavesResult(w) =>
        LET timer == cur[w][1]
        IN  timer.results[1].errors = <<>>
            => store'[timer.name].err_msg = None]_vars

(* the row of timer n says its last saved result was a success without an *)
(* interval of its own, and the timer has no periodicity                  *)
OneShotDone(st, n) ==
    /\ n \in DOMAIN st
    /\ st[n].periodicity_min = None
    /\ st[n].results = DictField_to_json(
           Some([errors |-> <<>>, reschedule_in_mins |-> None]))

(* C11: a timer with periodicity_min null whose handler succeeds with no  *)
(* reschedule_in_mins is a one-shot: executed_at stays set, is_active     *)
(* stays true, callback_at is unchanged, the row stays in the store and   *)
(* the handler is not invoked again in any later pass.                    *)
C11_OneShot ==
    [][\A n \in Names : OneShotDone(store, n) =>
        /\ store[n].executed_at # None
        /\ store[n].is_active
        /\ store[n].callback_at = Last(calls[n])
        /\ n \in DOMAIN store'
        /\ OneShotDone(store', n)
        /\ store'[n] = store[n]
        /\ calls'[n] = calls[n]]_vars

(* a one-shot run before 01:00, and a later pass that ran the purge timer *)
C11_Witness ==
    /\ OneShotDone(store, "t1")
    /\ Len(calls["t1"]) = 1
    /\ store["t1"].executed_at[1] < 1500
    /\ calls[PurgeTimerName] # <<>>

(* C12: when a timer's handler is resolved and invoked, the store already *)
(* holds the timer's row with executed_at set: the in-flight mark is      *)
(* saved before.                                                          *)
C12_MarkedBeforeInvoke ==
    [][\A w \in Workers :
        (pc[w] = "marked" /\ pc'[w] # "marked") =>
            LET n == cur[w][1].name
            IN  /\ n \in DOMAIN store
                /\ store[n].executed_at # None
                /\ store[n].executed_at = cur[w][1].executed_at]_vars

(* the handler has returned and the final save is still to come *)
C12_Witness ==
    \E w \in Workers :
        /\ pc[w] = "save72"
        /\ passRan[w] # <<>>
        /\ store[cur[w][1].name].executed_at # None
        /\ store[cur[w][1].name].results = None

(* C13: after a crash while a timer's handler is running (in-flight mark  *)
(* saved, final save not reached) the row keeps executed_at set,          *)
(* is_active true and its callback_at, and no pass after the restart      *)
(* invokes that timer's handler again.                                    *)
C13_CrashMidHandler ==
    [][/\ \A c \in crashed' :
            /\ c.name \in DOMAIN store'
            /\ store'[c.name].executed_at # None
            /\ store'[c.name].is_active
            /\ store'[c.name].callback_at = c.callback_at
       /\ \A c \in crashed : calls'[c.name] = calls[c.name]]_vars

(* a pass after the restart selected another timer and left out the       *)
(* interrupted one, although its time has come                            *)
C13_Witness ==
    \E c \in crashed : \E w \in Workers :
        /\ pc[w] = "loop"
        /\ passRead[w] # {}
        /\ \A r \in passRead[w] : r[1] # c.name
        /\ store[c.name].callback_at <= now
        /\ Len(calls[c.name]) = 1

(* C14: on a successful run the interval is the handler's                 *)
(* reschedule_in_mins when given, else the timer's periodicity_min, else  *)
(* none: with R >= floor callback_at advances by R whatever P is and the  *)
(* saved periodicity_min stays P; with no R and P >= floor it advances by *)
(* P; with neither, callback_at stays and executed_at stays set.          *)
C14_IntervalChoice ==
    [][\A w \in Workers : SavesResult(w) =>
        LET timer == cur[w][1]
            res == timer.results[1]
            old == store[timer.name]
            new == store'[timer.name]
            R == res.reschedule_in_mins
            P == old.periodicity_min
            floor == NOTIFICATION_MINIMUM_PERIODICITY_MINS
        IN  res.errors = <<>> =>
            /\ new.periodicity_min = P
            /\ (R # None /\ R[1] >= floor) =>
                   /\ new.callback_at = old.callback_at + R[1]
                   /\ new.executed_at = None
            /\ (R = None /\ P # None /\ P[1] >= floor) =>
                   /\ new.callback_at = old.callback_at + P[1]
                   /\ new.executed_at = None
            /\ (R = None /\ P = None) =>
                   /\ new.callback_at = old.callback_at
                   /\ new.executed_at # None]_vars

(* P = 60 and the handler asked for 120: the next run is 120 later *)
C14_Witness ==
    \E n \in DOMAIN store :
        /\ store[n].periodicity_min = Some(60)
        /\ store[n].results = DictField_to_json(
               Some([errors |-> <<>>, reschedule_in_mins |-> Some(120)]))
        /\ calls[n] # <<>>
        /\ store[n].callback_at = Last(calls[n]) + 120
        /\ store[n].executed_at = None

(* C15: every change made to a timer's callback_at is an increase of at   *)
(* least NOTIFICATION_MINIMUM_PERIODICITY_MINS minutes, for every         *)
(* periodicity_min and reschedule_in_mins (below the floor, zero and      *)
(* negative included); callback_at never decreases.                       *)
C15_CallbackAtAdvancesByFloor ==
    [][\A n \in DOMAIN store :
        /\ n \in DOMAIN store'
        /\ store'[n].callback_at # store[n].callback_at =>
               store'[n].callback_at >= store[n].callback_at
                   + NOTIFICATION_MINIMUM_PERIODICITY_MINS]_vars

(* a negative periodicity applied as the floor *)
C15_Witness ==
    \E n \in DOMAIN store :
        /\ store[n].periodicity_min = Some(-30)
        /\ store[n].results = DictField_to_json(
               Some([errors |-> <<>>, reschedule_in_mins |-> None]))
        /\ Len(calls[n]) = 1
        /\ store[n].callback_at = calls[n][1]
               + NOTIFICATION_MINIMUM_PERIODICITY_MINS
        /\ store[n].executed_at = None

(* C16 as stated: two consecutive invocations of the same timer's handler *)
(* are at least the floor apart in current time, also for a timer that    *)
(* was overdue by several intervals.                                      *)
C16_WallClockGap ==
    [][\A n \in Names :
        (calls'[n] # calls[n] /\ lastCallAt[n] # None) =>
            now - lastCallAt[n][1] >= NOTIFICATION_MINIMUM_PERIODICITY_MINS]_vars

(* C16 amended: consecutive invocations of a timer's handler are for      *)
(* callback_at values at least the floor apart, none of them in the       *)
(* future, and they fall in different passes; so the handler has run at   *)
(* most once per floor of time elapsed since its first callback_at.       *)
C16_ScheduledGap ==
    /\ \A n \in Names :
        /\ \A i \in 1..(Len(calls[n]) - 1) :
               calls[n][i + 1] >= calls[n][i]
                   + NOTIFICATION_MINIMUM_PERIODICITY_MINS
        /\ calls[n] # <<>> =>
               /\ Last(calls[n]) <= now
               /\ (Len(calls[n]) - 1) * NOTIFICATION_MINIMUM_PERIODICITY_MINS
                      <= now - calls[n][1]
    /\ \A w \in Workers : NoDuplicates(passRan[w])

(* an overdue timer catching up: run twice at the same current time *)
C16_Witness ==
    /\ now = 1380
    /\ Len(calls["t1"]) = 2
    /\ lastCallAt["t1"] = Some(1380)
    /\ calls["t1"][1] = 1320
    /\ \A w \in Workers : pc[w] = "idle"

(* the pass of worker w ends *)
EndsPass(w) == pc[w] = "loop" /\ pc'[w] = "idle"

(* C17: with two passes running concurrently on one store a due timer is  *)
(* executed at least once: when a pass ends, the handler of every timer   *)
(* it read as due (and whose class resolves) has been invoked for the     *)
(* callback_at the pass read.  Not exactly once: the witness is the       *)
(* interleaving where both passes read the timer before either saved the  *)
(* in-flight mark and both invoked it for the same callback_at.           *)
C17_AtLeastOnce ==
    [][\A w \in Workers : EndsPass(w) =>
        \A r \in passRead[w] :
            Resolvable(store[r[1]].class_name) =>
                \E i \in 1..Len(calls[r[1]]) : calls[r[1]][i] = r[2]]_vars

(* both passes have invoked the handler of t1 for the same callback_at *)
C17_Witness ==
    \E c \in InitCallbackAts :
        /\ calls["t1"] = <<c, c>>
        /\ \A w \in Workers :
            /\ <<"t1", c>> \in passRead[w]
            /\ \E i \in 1..Len(passRan[w]) : passRan[w][i] = "t1"

(* the names of the timers worker w selected as due in its current pass *)
Selected(w) == {r[1] : r \in passRead[w]}

(* C18: a scan pass creates and deletes no timer row and leaves name,     *)
(* class_name, context and periodicity_min of every row as they were; it  *)
(* writes executed_at, callback_at, is_active, err_msg and results only,  *)
(* and only on rows of timers it selected as due in that pass.            *)
C18_PassFrame ==
    [][regs' = regs =>
        /\ DOMAIN store' = DOMAIN store
        /\ \A n \in DOMAIN store :
            /\ store'[n].name = store[n].name
            /\ store'[n].class_name = store[n].class_name
            /\ store'[n].context = store[n].context
            /\ store'[n].periodicity_min = store[n].periodicity_min
            /\ store'[n] # store[n] => \E w \in Workers : n \in Selected(w)]_vars

(* a pass has run t1 to the end and saved it, with its context as given;  *)
(* the purge timer, not due, was not selected and is as registered        *)
C18_Witness ==
    \E w \in Workers :
        /\ pc[w] = "loop"
        /\ Selected(w) = {"t1"}
        /\ store["t1"].results # None
        /\ store["t1"].context = DictField_to_json(TimerContext)
        /\ PurgeTimerName \in DOMAIN store
        /\ store[PurgeTimerName].results = None
        /\ store[PurgeTimerName].executed_at = None

(* the earliest instant later than t whose time of day is 01:00 *)
UpcomingOneAM(t) ==
    LET midnight == (t \div MINUTES_IN_A_DAY) * MINUTES_IN_A_DAY
    IN  IF t < midnight + 60 THEN midnight + 60
        ELSE midnight + MINUTES_IN_A_DAY + 60

(* C19: a registration that creates the purge timer at current time t     *)
(* saves it active, with periodicity_min = 1440 and callback_at the       *)
(* upcoming 01:00 UTC, the earliest 01:00 later than t, for every t       *)
(* (between 00:00 and 01:00 included).                                    *)
C19_UpcomingOneAM ==
    [][(PurgeTimerName \notin DOMAIN store /\ PurgeTimerName \in DOMAIN store')
        => /\ store'[PurgeTimerName].is_active
           /\ store'[PurgeTimerName].periodicity_min = Some(MINUTES_IN_A_DAY)
           /\ store'[PurgeTimerName].callback_at = UpcomingOneAM(now)]_vars

(* no timer would be selected as due *)
Quiescent == get_all_active_timers(store, now) = {}

(* C20: with the current time held fixed and handlers that return,        *)
(* repeated scan passes reach quiescence after finitely many passes: a    *)
(* timer's handler runs at most once per floor of time between its first  *)
(* callback_at and the current time, and eventually no timer is selected  *)
(* as due any more.                                                       *)
C20_Quiescence ==
    /\ [](\A n \in Names : calls[n] # <<>> =>
            (Len(calls[n]) - 1) * NOTIFICATION_MINIMUM_PERIODICITY_MINS
                <= now - calls[n][1])
    /\ <>[]Quiescent

(* quiescence reached after the overdue timer was run twice, catching up *)
C20_Witness ==
    /\ Quiescent
    /\ \A w \in Workers : pc[w] = "idle"
    /\ Len(calls["t1"]) = 2
    /\ store["t1"].is_active
    /\ store["t1"].executed_at = None
    /\ store["t1"].callback_at > now

====
